---- MODULE Spec2Model ----
(***************************************************************************)
(* Model of the learnAI backend relay (src/backend/main.py): the lesson    *)
(* handler generate_lesson, its role detection, audio chunk combination    *)
(* and segment merge, the quiz handler generate_quiz, and the calls both   *)
(* make to the personalization service (src/backend/fastino_client.py),    *)
(* the two ingest routes, and the server with two requests in flight.      *)
(*                                                                         *)
(* Text is modelled as a sequence of character codes.  A base64 character  *)
(* is represented by its index 0..63 in the base64 alphabet, "=" by Pad    *)
(* and any character outside the alphabet by Junk.  Bytes are 0..255.      *)
(***************************************************************************)
EXTENDS Integers, Sequences, FiniteSets, TLC

VARIABLES
    pc,         \* position of the lesson handler
    data,       \* the parsed body of the generation endpoint's answer: data["result"]
    trace,      \* the values the handler computed on its way (role indices, the two maps)
    response,   \* the HTTP response of POST /generateLesson
    request,    \* the body of the POST /generateLesson request
    chunks,     \* chunk combiner: the list of base64 chunks handed to it
    combined,   \* chunk combiner: its result
    endpoint,   \* the route that was called: "generateLesson" or "generateQuiz"
    config,     \* the module-level settings read from the environment
    fastino,    \* what the personalization service did on the ingest and the query call
    prompt,     \* enhanced_prompt (lesson) or user_pref_context (quiz)
    calls,      \* the outbound calls issued so far, in order
    answer,     \* what the generation call came back with
    frames,     \* the server with two requests in flight: the locals of each handler call
    now         \* the server's clock, in milliseconds

vars == <<pc, data, trace, response, request, chunks, combined,
          endpoint, config, fastino, prompt, calls, answer, frames, now>>

\* the variables of the handlers' outbound calls
apiVars == <<endpoint, config, fastino, prompt, calls, answer>>

\* the variables of the server with two requests in flight
serverVars == <<frames, now>>

\* ------------------------------------------------------------------ bounds

\* longest segment list of a result slot
MaxSegs == 2
\* longest chunk list handed to the combiner
MaxChunks == 3
\* longest quiz array of an answer of the quiz endpoint
MaxQuestions == 3
\* longest segments list of the lists that reach past the sampled records
MaxRecords == 6

\* ------------------------------------------------------- python primitives

\* Python's None for integer-valued fields (segment_id, duration)
None == -1
\* Python's None, or a missing key, for text-valued fields (narration, image_url,
\* topic): a marker that is no text an input carries
NoText == "<None>"
\* "=" in a base64 string
Pad == 64
\* a character outside the base64 alphabet
Junk == 65

Min(a, b) == IF a < b THEN a ELSE b

\* base64.b64encode(b).decode("utf-8"): three bytes become four characters, the
\* last group padded with "="
RECURSIVE b64encode(_)
b64encode(b) ==
    IF Len(b) = 0 THEN <<>>
    ELSE IF Len(b) = 1 THEN
        <<b[1] \div 4, (b[1] % 4) * 16, Pad, Pad>>
    ELSE IF Len(b) = 2 THEN
        <<b[1] \div 4, (b[1] % 4) * 16 + (b[2] \div 16), (b[2] % 16) * 4, Pad>>
    ELSE
        <<b[1] \div 4, (b[1] % 4) * 16 + (b[2] \div 16),
          (b[2] % 16) * 4 + (b[3] \div 64), b[3] % 64>>
        \o b64encode(SubSeq(b, 4, Len(b)))

\* One character of binascii.a2b_base64 (non-strict mode, which base64.b64decode
\* uses by default).  st = [quad_pos, leftchar, pads, out, done].
a2b_step(st, ch) ==
    IF st.done THEN st
    ELSE IF ch = Pad THEN
        IF st.quad_pos >= 2
        THEN IF st.quad_pos + st.pads + 1 >= 4
             THEN [st EXCEPT !.pads = @ + 1, !.done = TRUE]
             ELSE [st EXCEPT !.pads = @ + 1]
        ELSE st
    ELSE IF ch >= 64 THEN st
    ELSE IF st.quad_pos = 0 THEN
        [st EXCEPT !.pads = 0, !.quad_pos = 1, !.leftchar = ch]
    ELSE IF st.quad_pos = 1 THEN
        [st EXCEPT !.pads = 0, !.quad_pos = 2,
                   !.out = Append(@, st.leftchar * 4 + (ch \div 16)),
                   !.leftchar = ch % 16]
    ELSE IF st.quad_pos = 2 THEN
        [st EXCEPT !.pads = 0, !.quad_pos = 3,
                   !.out = Append(@, st.leftchar * 16 + (ch \div 4)),
                   !.leftchar = ch % 4]
    ELSE
        [st EXCEPT !.pads = 0, !.quad_pos = 0,
                   !.out = Append(@, st.leftchar * 64 + ch),
                   !.leftchar = 0]

RECURSIVE a2b_loop(_, _, _)
a2b_loop(s, i, st) ==
    IF i > Len(s) THEN st ELSE a2b_loop(s, i + 1, a2b_step(st, s[i]))

\* base64.b64decode(s): [ok |-> TRUE, bytes |-> ...], or ok = FALSE where
\* binascii.Error is raised (the data characters do not fill the last group)
b64decode(s) ==
    LET st == a2b_loop(s, 1, [quad_pos |-> 0, leftchar |-> 0, pads |-> 0,
                              out |-> <<>>, done |-> FALSE])
    IN  IF st.done \/ st.quad_pos = 0
        THEN [ok |-> TRUE, bytes |-> st.out]
        ELSE [ok |-> FALSE, bytes |-> <<>>]

\* The chunk loop of generate_lesson and of combine_audio_base64: decode each
\* chunk, append its bytes, raise on the first chunk that does not decode.
RECURSIVE decode_chunks(_, _, _)
decode_chunks(cs, i, combined_binary) ==
    IF i > Len(cs) THEN [ok |-> TRUE, bytes |-> combined_binary]
    ELSE LET d == b64decode(cs[i])
         IN  IF d.ok
             THEN decode_chunks(cs, i + 1, combined_binary \o d.bytes)
             ELSE [ok |-> FALSE, bytes |-> <<>>]

\* The sequences laid end to end, as "".join(chunks) does
RECURSIVE Join(_)
Join(ss) == IF Len(ss) = 0 THEN <<>> ELSE Head(ss) \o Join(Tail(ss))

\* the chunks' base64 texts concatenated, without decoding them
combine_audio_base64_naive(cs) == [ok |-> TRUE, b64 |-> Join(cs)]

\* combine_audio_base64(chunks): [ok, b64]; ok = FALSE where it raises
combine_audio_base64(cs) ==
    LET r == decode_chunks(cs, 1, <<>>)
    IN  [ok |-> r.ok, b64 |-> IF r.ok THEN b64encode(r.bytes) ELSE <<>>]

\* ------------------------------------------------------- combiner harness

SeqsUpTo(S, n) == UNION {[1..k -> S] : k \in 0..n}

\* byte strings the chunk inputs encode: of 0 to 4 bytes, so that a chunk ends
\* with "==", with "=" or with no padding ("Man" is "TWFu")
ByteStrings ==
    {<<>>, <<0>>, <<255>>, <<0, 255>>, <<77, 97, 110>>, <<255, 0, 255>>,
     <<77, 97, 110, 33>>}


\* ------------------------------------------------------------ data model

\* The audio_base64 field of a segment record: missing, a string, a list of
\* chunk strings, or a value of another type (a number)
NoAudio == [kind |-> "absent", str |-> <<>>, chunks |-> <<>>]
AStr(s) == [kind |-> "str", str |-> s, chunks |-> <<>>]
AList(cs) == [kind |-> "list", str |-> <<>>, chunks |-> cs]
AOther == [kind |-> "other", str |-> <<>>, chunks |-> <<>>]

\* bool(audio_base64): None, "" and [] are false, anything else is true
Truthy(a) ==
    \/ a.kind = "str" /\ Len(a.str) > 0
    \/ a.kind = "list" /\ Len(a.chunks) > 0
    \/ a.kind = "other"

\* One record of a segments list
Seg(id, audio, narration, image_url, duration) ==
    [segment_id |-> id, audio_base64 |-> audio, narration |-> narration,
     image_url |-> image_url, duration |-> duration]

\* dict: a function from the keys it holds
EmptyDict == [k \in {} |-> {}]
Put(d, key, value) ==
    [k \in DOMAIN d \cup {key} |-> IF k = key THEN value ELSE d[k]]

Range(s) == {s[i] : i \in DOMAIN s}

\* sorted(S) of a set of integers
RECURSIVE SortedSet(_)
SortedSet(S) ==
    IF S = {} THEN <<>>
    ELSE LET m == CHOOSE x \in S : \A y \in S : x <= y
         IN  <<m>> \o SortedSet(S \ {m})

\* list.sort(key=lambda x: x["segment_id"]): a stable insertion of each record
RECURSIVE InsertBySegmentId(_, _)
InsertBySegmentId(sorted, seg) ==
    IF Len(sorted) = 0 THEN <<seg>>
    ELSE IF sorted[Len(sorted)].segment_id <= seg.segment_id
         THEN Append(sorted, seg)
         ELSE Append(InsertBySegmentId(SubSeq(sorted, 1, Len(sorted) - 1), seg),
                     sorted[Len(sorted)])

RECURSIVE sort_by_segment_id(_)
sort_by_segment_id(segs) ==
    IF Len(segs) = 0 THEN <<>>
    ELSE InsertBySegmentId(sort_by_segment_id(SubSeq(segs, 1, Len(segs) - 1)),
                           segs[Len(segs)])

\* ------------------------------------------------------- generate_lesson

\* how many leading records has_audio_base64 inspects
SampleSize == 5

\* One slot of data["result"]: its output is missing (None, "" or {}), a string
\* that is not JSON ("badjson"), the JSON text of an object ("text") or of a
\* list ("text_list"), an already parsed object ("dict") or list ("list").  topic and the
\* segments field are those of the (parsed) output; the segments field is
\* missing, not a list, or a list of records.
Output(kind, topic, segkind, seglist) ==
    [kind |-> kind, topic |-> topic, segkind |-> segkind, seglist |-> seglist]

\* parse_output(output_value, result_index): ok = FALSE where it raises.  A falsy
\* output and a string that json.loads rejects raise ValueError; a string of
\* JSON is returned parsed, after a logging line that calls parsed.keys() and
\* so raises AttributeError when the JSON is not an object; any other value is
\* returned as it is.
parse_output(output_value, result_index) ==
    IF output_value.kind = "missing" THEN
        [ok |-> FALSE, raises |-> "ValueError", error |-> "Missing output in result",
         parsed |-> output_value]
    ELSE IF output_value.kind = "badjson" THEN
        [ok |-> FALSE, raises |-> "ValueError",
         error |-> "Failed to parse result output as JSON", parsed |-> output_value]
    ELSE IF output_value.kind = "text_list" THEN
        [ok |-> FALSE, raises |-> "AttributeError", error |-> "Internal server error",
         parsed |-> output_value]
    ELSE IF output_value.kind = "text" THEN
        [ok |-> TRUE, raises |-> "", error |-> "",
         parsed |-> [output_value EXCEPT !.kind = "dict"]]
    ELSE [ok |-> TRUE, raises |-> "", error |-> "", parsed |-> output_value]

\* the emptiness check of the validation loop left out
segments_error_allows_empty(parsed) ==
    IF parsed.segkind = "notlist" THEN "segments is not a list" ELSE ""

\* parsed.get("segments", []) followed by the two checks of the validation loop:
\* "" when the value is a non-empty list, else the error of the 500 response
segments_error(parsed) ==
    IF parsed.segkind = "notlist" THEN "segments is not a list"
    ELSE IF parsed.segkind = "absent" \/ Len(parsed.seglist) = 0
         THEN "segments is empty"
         ELSE ""

\* every record of the list inspected
has_audio_base64_all(segments) ==
    \E i \in 1..Len(segments) : Truthy(segments[i].audio_base64)

\* has_audio_base64(segments): any(seg.get("audio_base64") for seg in segments[:5])
has_audio_base64(segments) ==
    \E i \in 1..Min(SampleSize, Len(segments)) : Truthy(segments[i].audio_base64)

\* slot 0 taken as the audio list whenever any slot has audio
audio_result_index_of_first(result0_has_audio, result1_has_audio) ==
    IF result0_has_audio \/ result1_has_audio THEN 0 ELSE None

\* the ambiguous case rejected like the case without audio
audio_result_index_of_reject_both(result0_has_audio, result1_has_audio) ==
    IF result0_has_audio /\ ~result1_has_audio THEN 0
    ELSE IF result1_has_audio /\ ~result0_has_audio THEN 1
    ELSE None

\* the final else branch lost: without audio anywhere, slot 0 is the audio list
audio_result_index_of_no_else(result0_has_audio, result1_has_audio) ==
    IF result1_has_audio /\ ~result0_has_audio THEN 1 ELSE 0

\* The if/elif chain that assigns the roles: 0 or 1 for the slot that holds the
\* audio, None when neither does
audio_result_index_of(result0_has_audio, result1_has_audio) ==
    IF result0_has_audio /\ ~result1_has_audio THEN 0
    ELSE IF result1_has_audio /\ ~result0_has_audio THEN 1
    ELSE IF result0_has_audio /\ result1_has_audio THEN 0
    ELSE None

\* STEP 3, one record: m = [raised, map].  A chunk that does not decode raises
\* out of the loop (nothing catches binascii.Error before the handler's
\* "except Exception").
audio_map_step(m, seg) ==
    LET a == seg.audio_base64 IN
    IF m.raised THEN m
    ELSE IF seg.segment_id = None THEN m
    ELSE IF ~Truthy(a) THEN m
    ELSE IF a.kind = "str" THEN
        [m EXCEPT !.map = Put(@, seg.segment_id,
            [audio_base64 |-> a.str, audio_length |-> Len(a.str)])]
    ELSE IF a.kind = "list" THEN
        LET c == combine_audio_base64(a.chunks) IN
        IF c.ok
        THEN [m EXCEPT !.map = Put(@, seg.segment_id,
                [audio_base64 |-> c.b64, audio_length |-> Len(c.b64)])]
        ELSE [m EXCEPT !.raised = TRUE]
    ELSE m

RECURSIVE audio_map_loop(_, _, _)
audio_map_loop(segs, i, m) ==
    IF i > Len(segs) THEN m
    ELSE audio_map_loop(segs, i + 1, audio_map_step(m, segs[i]))

\* STEP 3: audio_segments_map, or raised = TRUE
audio_segments_map_of(audio_segments) ==
    audio_map_loop(audio_segments, 1, [raised |-> FALSE, map |-> EmptyDict])

\* STEP 4, one record
content_map_step(m, seg) ==
    IF seg.segment_id = None THEN m
    ELSE Put(m, seg.segment_id,
             [narration |-> IF seg.narration = NoText THEN "" ELSE seg.narration,
              image_url |-> seg.image_url,
              duration |-> seg.duration])

RECURSIVE content_map_loop(_, _, _)
content_map_loop(segs, i, m) ==
    IF i > Len(segs) THEN m
    ELSE content_map_loop(segs, i + 1, content_map_step(m, segs[i]))

\* the content records keyed by their position in the list, not by segment_id
content_segments_map_by_position(content_segments) ==
    [i \in 1..Len(content_segments) |->
        [narration |-> IF content_segments[i].narration = NoText
                       THEN "" ELSE content_segments[i].narration,
         image_url |-> content_segments[i].image_url,
         duration |-> content_segments[i].duration]]

\* STEP 4: content_segments_map
content_segments_map_of(content_segments) ==
    content_map_loop(content_segments, 1, EmptyDict)

\* sorted(seq) of a list of integers, duplicates kept
RECURSIVE SortedList(_)
SortedList(seq) ==
    IF Len(seq) = 0 THEN <<>>
    ELSE LET i == CHOOSE i \in DOMAIN seq : \A j \in DOMAIN seq : seq[i] <= seq[j]
         IN  <<seq[i]>> \o SortedList(SubSeq(seq, 1, i - 1) \o SubSeq(seq, i + 1, Len(seq)))

\* sorted(audio_segment_ids + content_segment_ids): the set() forgotten
sorted_all_segment_ids_without_set(audio_segment_ids, content_segment_ids) ==
    SortedList(audio_segment_ids \o content_segment_ids)

\* sorted(set(audio_segment_ids + content_segment_ids))
sorted_all_segment_ids(audio_segment_ids, content_segment_ids) ==
    SortedSet(Range(audio_segment_ids \o content_segment_ids))

\* STEP 5, one identifier: the combined segment is appended when both maps hold it
combine_step(combined_segments, segment_id, audio_map, content_map) ==
    IF segment_id \notin DOMAIN audio_map THEN combined_segments
    ELSE IF segment_id \notin DOMAIN content_map THEN combined_segments
    ELSE Append(combined_segments,
            [segment_id |-> segment_id,
             audioBase64 |-> audio_map[segment_id].audio_base64,
             imageUrl |-> content_map[segment_id].image_url,
             narration |-> content_map[segment_id].narration,
             duration |-> content_map[segment_id].duration])

RECURSIVE combine_loop(_, _, _, _, _)
combine_loop(ids, i, combined_segments, audio_map, content_map) ==
    IF i > Len(ids) THEN combined_segments
    ELSE combine_loop(ids, i + 1,
                      combine_step(combined_segments, ids[i], audio_map, content_map),
                      audio_map, content_map)

\* STEP 5: combined_segments after the loop and the sort that follows it
combined_segments_of(audio_map, content_map) ==
    sort_by_segment_id(
        combine_loop(
            sorted_all_segment_ids(SortedSet(DOMAIN audio_map),
                                   SortedSet(DOMAIN content_map)),
            1, <<>>, audio_map, content_map))

\* the validation of the combined segments left out
is_valid_segment_unchecked(seg) == TRUE

\* the filter that keeps the segments with audio and an identifier
is_valid_segment(seg) == Len(seg.audioBase64) > 0 /\ seg.segment_id # None

\* the combined segments returned as they are
valid_segments_of_unfiltered(combined_segments) == combined_segments

RECURSIVE valid_segments_of(_)
valid_segments_of(combined_segments) ==
    IF Len(combined_segments) = 0 THEN <<>>
    ELSE (IF is_valid_segment(Head(combined_segments))
          THEN <<Head(combined_segments)>> ELSE <<>>)
         \o valid_segments_of(Tail(combined_segments))

\* the content output asked for its topic before the audio output
topic_of_content_first(audio_parsed, content_parsed, req) ==
    IF content_parsed.topic # NoText /\ content_parsed.topic # ""
    THEN content_parsed.topic
    ELSE IF audio_parsed.topic # NoText /\ audio_parsed.topic # ""
         THEN audio_parsed.topic
         ELSE req.userInput

\* audio_parsed.get("topic") or content_parsed.get("topic") or request.userInput
topic_of(audio_parsed, content_parsed, req) ==
    IF audio_parsed.topic # NoText /\ audio_parsed.topic # ""
    THEN audio_parsed.topic
    ELSE IF content_parsed.topic # NoText /\ content_parsed.topic # ""
         THEN content_parsed.topic
         ELSE req.userInput

\* response_model=LessonDataResponse: the returned dict is serialised through
\* LessonSegment, which has no duration field
LessonSegment(seg) ==
    [segment_id |-> seg.segment_id, imageUrl |-> seg.imageUrl,
     audioBase64 |-> seg.audioBase64, narration |-> seg.narration]

LessonDataResponse(segs) == [i \in 1..Len(segs) |-> LessonSegment(segs[i])]

\* headers={"Access-Control-Allow-Origin": "*"}
AllowOrigin == {<<"Access-Control-Allow-Origin", "*">>}

\* JSONResponse(status_code=status, content={"error": error}, headers=AllowOrigin)
ErrorResponse(status, error) ==
    [status |-> status, error |-> error, headers |-> AllowOrigin,
     topic |-> NoText, segments |-> <<>>]

\* STEPS 3 to 5 and the validation that follows, from the two role lists:
\* raised = TRUE where an exception leaves the block
merge(audio_segments, content_segments) ==
    LET am == audio_segments_map_of(audio_segments)
        cm == content_segments_map_of(content_segments)
        combined_segments == combined_segments_of(am.map, cm)
    IN  IF am.raised
        THEN [raised |-> TRUE, audio_segments_map |-> EmptyDict,
              content_segments_map |-> EmptyDict, combined_segments |-> <<>>,
              valid_segments |-> <<>>]
        ELSE [raised |-> FALSE, audio_segments_map |-> am.map,
              content_segments_map |-> cm, combined_segments |-> combined_segments,
              valid_segments |-> valid_segments_of(combined_segments)]

\* the roles given by position: result[0] the audio list, result[1] the content
roles_of_fixed_slots(segments0, segments1) ==
    [audio_result_index |-> 0, audio_segments |-> segments0,
     content_segments |-> segments1]

\* STEP 2: which slot is the audio list and which the content list
roles_of(segments0, segments1) ==
    LET audio_result_index ==
            audio_result_index_of(has_audio_base64(segments0),
                                  has_audio_base64(segments1))
    IN  [audio_result_index |-> audio_result_index,
         audio_segments |-> IF audio_result_index = 1 THEN segments1 ELSE segments0,
         content_segments |-> IF audio_result_index = 1 THEN segments0 ELSE segments1]

\* what the handler has computed when it returns; stage is the last step it reached
NoTrace ==
    [stage |-> "none", parsed |-> <<>>, audio_result_index |-> None,
     audio_segments |-> <<>>, content_segments |-> <<>>,
     merged |-> [raised |-> FALSE, audio_segments_map |-> EmptyDict,
                 content_segments_map |-> EmptyDict, combined_segments |-> <<>>,
                 valid_segments |-> <<>>]]

\* The handler from the parsed body of the generation answer to its return:
\* [response, trace]
process_result(result, req) ==
    LET p0 == parse_output(result[1], 0)
        p1 == parse_output(result[2], 1)
        e0 == segments_error(p0.parsed)
        e1 == segments_error(p1.parsed)
        roles == roles_of(p0.parsed.seglist, p1.parsed.seglist)
        audio_parsed == IF roles.audio_result_index = 1 THEN p1.parsed ELSE p0.parsed
        content_parsed == IF roles.audio_result_index = 1 THEN p0.parsed ELSE p1.parsed
        merged == merge(roles.audio_segments, roles.content_segments)
        parsed == [NoTrace EXCEPT !.parsed = <<p0.parsed, p1.parsed>>]
        detected == [parsed EXCEPT !.stage = "detect",
                                    !.audio_result_index = roles.audio_result_index,
                                    !.audio_segments = roles.audio_segments,
                                    !.content_segments = roles.content_segments]
        done == [detected EXCEPT !.stage = "merge", !.merged = merged]
    IN  IF ~p0.ok THEN
            [response |-> ErrorResponse(500, p0.error), trace |-> NoTrace]
        ELSE IF ~p1.ok THEN
            [response |-> ErrorResponse(500, p1.error), trace |-> NoTrace]
        ELSE IF p0.parsed.kind # "dict" \/ p1.parsed.kind # "dict" THEN
            [response |-> ErrorResponse(500, "Internal server error"), trace |-> parsed]
        ELSE IF e0 # "" THEN
            [response |-> ErrorResponse(500, e0), trace |-> parsed]
        ELSE IF e1 # "" THEN
            [response |-> ErrorResponse(500, e1), trace |-> parsed]
        ELSE IF roles.audio_result_index = None THEN
            [response |-> ErrorResponse(500, "neither result contains audio_base64"),
             trace |-> [parsed EXCEPT !.stage = "detect"]]
        ELSE IF merged.raised THEN
            [response |-> ErrorResponse(500, "Internal server error"),
             trace |-> done]
        ELSE IF Len(merged.valid_segments) = 0 THEN
            [response |-> ErrorResponse(500, "No valid segments could be created from API response"),
             trace |-> done]
        ELSE
            [response |-> [status |-> 200, error |-> "", headers |-> {},
                           topic |-> topic_of(audio_parsed, content_parsed, req),
                           segments |-> LessonDataResponse(merged.valid_segments)],
             trace |-> done]

\* ------------------------------------------------- inputs of the handler

\* identifiers the upstream records carry
SegIds == {1, 2}

\* "AA==" and "/w==": one byte each
B64A == b64encode(<<0>>)
B64B == b64encode(<<255>>)
\* "QQ": two data characters and no padding, which b64decode rejects
BadChunk == <<16, 16>>

\* records as the audio step of the pipeline writes them: a string, a chunk
\* list, a chunk list with a chunk that does not decode, one that decodes to no
\* byte, a number, no audio, and a record without an identifier
AudioRecords ==
    {Seg(1, a, NoText, NoText, None) : a \in {AStr(B64A), AList(<<B64A, B64B>>), NoAudio, AOther}}
    \cup {Seg(2, a, NoText, NoText, None) : a \in {AStr(B64A), AList(<<BadChunk>>), AList(<< <<>> >>)}}
    \cup {Seg(None, AStr(B64A), NoText, NoText, None)}

\* records as the content step writes them: full, bare, without an identifier,
\* and one that also carries audio
ContentRecords ==
    {Seg(1, NoAudio, "Hello", "http://x/1.png", 5),
     Seg(2, NoAudio, "World", "http://x/2.png", 7),
     Seg(2, NoAudio, NoText, NoText, None),
     Seg(None, NoAudio, "Hello", NoText, None),
     Seg(1, AStr(B64B), "Hello", "http://x/1.png", 5)}

NonEmptySeqsUpTo(S, n) == UNION {[1..k -> S] : k \in 1..n}

\* outputs whose segments field is not a usable list
BrokenOutputs ==
    {Output("missing", NoText, "absent", <<>>),
     Output("badjson", NoText, "absent", <<>>),
     Output("dict", NoText, "absent", <<>>),
     Output("dict", NoText, "notlist", <<>>),
     Output("text", NoText, "list", <<>>),
     Output("text_list", NoText, "absent", <<>>),
     Output("list", NoText, "absent", <<>>)}

\* what the audio step and the content step of the pipeline may put out
AudioOutputs ==
    BrokenOutputs
    \cup {Output("text", NoText, "list", l) : l \in NonEmptySeqsUpTo(AudioRecords, MaxSegs)}

ContentOutputs ==
    BrokenOutputs
    \cup {Output("dict", NoText, "list", l) : l \in NonEmptySeqsUpTo(ContentRecords, MaxSegs)}

\* ------------------------------------------------------------- the machine

Idle == [status |-> 0, error |-> "", headers |-> {}, topic |-> NoText, segments |-> <<>>]

\* the outbound-call variables before any call
NoPrompt == [userInput |-> NoText, context |-> <<>>]
NoFastino == [ingest |-> "none", ingest_success |-> FALSE, query |-> "none"]
NoAnswer == [kind |-> "none"]

Init ==
    /\ pc = "start"
    /\ request = [userInput |-> "photosynthesis", user_id |-> NoText]
    /\ data = <<>>
    /\ trace = NoTrace
    /\ response = Idle
    /\ chunks = <<>>
    /\ combined = [state |-> "idle", ok |-> FALSE, b64 |-> <<>>]
    /\ endpoint = "generateLesson"
    /\ config = [AIRIA_API_KEY |-> TRUE, AIRIA_API_URL |-> TRUE,
                 AIRIA_QUIZ_API_URL |-> TRUE, AIRIA_USER_ID |-> TRUE]
    /\ fastino = NoFastino
    /\ prompt = NoPrompt
    /\ calls = <<>>
    /\ answer = NoAnswer
    /\ frames = <<>>
    /\ now = 0

\* generate_lesson up to "await client.post(...)"
SendGeneration ==
    /\ pc = "start"
    /\ pc' = "awaiting"
    /\ UNCHANGED <<data, trace, response, request, chunks, combined>>
    /\ UNCHANGED apiVars
    /\ UNCHANGED serverVars

\* "await client.post(...)" returns: the generation endpoint has answered 200
\* with a JSON body holding two result slots, the two steps' outputs in either
\* slot order
ReceiveResult ==
    /\ pc = "awaiting"
    /\ \E a \in AudioOutputs, c \in ContentOutputs, swapped \in BOOLEAN :
        data' = IF swapped THEN <<c, a>> ELSE <<a, c>>
    /\ pc' = "received"
    /\ UNCHANGED <<trace, response, request, chunks, combined>>
    /\ UNCHANGED apiVars
    /\ UNCHANGED serverVars

\* the handler from the answer to its return, which no await interrupts
ProcessResult ==
    /\ pc = "received"
    /\ LET r == process_result(data, request) IN
        /\ trace' = r.trace
        /\ response' = r.response
    /\ pc' = "done"
    /\ UNCHANGED <<data, request, chunks, combined>>
    /\ UNCHANGED apiVars
    /\ UNCHANGED serverVars

Next == SendGeneration \/ ReceiveResult \/ ProcessResult

Spec == Init /\ [][Next]_vars

\* ----------------------------------------------------- the chunk combiner

ChunkInputs == SeqsUpTo(ByteStrings, MaxChunks)

\* chunks holds the byte strings; each is sent base64-encoded on its own
EncodedChunks(bs) == [i \in 1..Len(bs) |-> b64encode(bs[i])]

InitCombine ==
    /\ pc = "combiner"
    /\ request = [userInput |-> "", user_id |-> NoText]
    /\ data = <<>>
    /\ trace = NoTrace
    /\ response = Idle
    /\ chunks \in ChunkInputs
    /\ combined = [state |-> "idle", ok |-> FALSE, b64 |-> <<>>]
    /\ endpoint = "none"
    /\ config = [AIRIA_API_KEY |-> TRUE, AIRIA_API_URL |-> TRUE,
                 AIRIA_QUIZ_API_URL |-> TRUE, AIRIA_USER_ID |-> TRUE]
    /\ fastino = NoFastino
    /\ prompt = NoPrompt
    /\ calls = <<>>
    /\ answer = NoAnswer
    /\ frames = <<>>
    /\ now = 0

Combine ==
    /\ pc = "combiner"
    /\ combined.state = "idle"
    /\ LET r == combine_audio_base64(EncodedChunks(chunks))
       IN  combined' = [state |-> "done", ok |-> r.ok, b64 |-> r.b64]
    /\ UNCHANGED <<pc, data, trace, response, request, chunks>>
    /\ UNCHANGED apiVars
    /\ UNCHANGED serverVars

NextCombine == Combine

SpecCombine == InitCombine /\ [][NextCombine]_vars

\* ------------------------------------------- the personalization client

\* what the personalization endpoint can do with an ingest call: a 2xx answer,
\* another status, a timeout, a transport error, any other exception
IngestOutcomes == {"success", "error_status", "timeout", "request_error", "exception"}

\* with a query call: a 2xx JSON answer with a non-empty answer field, one
\* without, a 2xx body that is not JSON, and the failures of the ingest call
QueryOutcomes ==
    {"answer", "no_answer", "not_json", "error_status", "timeout",
     "request_error", "exception"}

\* the heading generate_quiz looks for in an answer
KeyObservations == "Key Observations & Learning Patterns\n\n###"

\* answers of the personalization service, as sequences of text parts
QueryAnswers ==
    {<<"You struggled with chlorophyll">>,
     <<"Summary", KeyObservations, "You struggled with chlorophyll">>}

\* ingest_lesson: every failure is caught inside and becomes False
ingest_lesson(outcome) == [raised |-> FALSE, value |-> outcome = "success"]

\* None where a text is expected
NoneText == <<NoText>>

\* query_fastino: the answer, or None on every failure
query_fastino(outcome, text) ==
    [raised |-> FALSE, value |-> IF outcome = "answer" THEN text ELSE NoneText]

\* "if answer:" on the call's result
HasAnswer(q) == ~q.raised /\ q.value # NoneText /\ Len(q.value) > 0

\* ------------------------------------------------ the generation call

\* exceptions client.post can raise: httpx.ConnectTimeout and httpx.ReadTimeout
\* derive from httpx.TimeoutException, which derives from httpx.RequestError as
\* httpx.ConnectError and httpx.ReadError do; httpx.InvalidURL derives from
\* Exception only
Exceptions == {"ConnectTimeout", "ReadTimeout", "ConnectError", "ReadError", "InvalidURL"}

IsTimeoutException(exc) == exc \in {"ConnectTimeout", "ReadTimeout"}
IsRequestError(exc) == exc \in {"ConnectTimeout", "ReadTimeout", "ConnectError", "ReadError"}

\* statuses of a non-success answer of the generation endpoint
ErrorStatuses == {401, 404, 429, 500, 503}

\* response.is_success
is_success(status) == 200 <= status /\ status <= 299

\* the "except httpx.RequestError" clause placed before the timeout clause
on_exception_request_error_first(exc) ==
    IF IsRequestError(exc) THEN ErrorResponse(503, "Failed to connect to Airia.ai API")
    ELSE IF IsTimeoutException(exc)
         THEN ErrorResponse(504, "Request to Airia.ai API timed out. Please try again.")
         ELSE ErrorResponse(500, "Internal server error")

\* the "except Exception" clause lost: the exception leaves the handler and the
\* server answers with its plain 500
on_exception_unhandled(exc) ==
    IF IsTimeoutException(exc)
    THEN ErrorResponse(504, "Request to Airia.ai API timed out. Please try again.")
    ELSE IF IsRequestError(exc)
         THEN ErrorResponse(503, "Failed to connect to Airia.ai API")
         ELSE [ErrorResponse(500, "Internal Server Error") EXCEPT !.headers = {}]

\* the except clauses around the generation call, in their order (the same in
\* generate_lesson and generate_quiz)
on_exception(exc) ==
    IF IsTimeoutException(exc)
    THEN ErrorResponse(504, "Request to Airia.ai API timed out. Please try again.")
    ELSE IF IsRequestError(exc)
         THEN ErrorResponse(503, "Failed to connect to Airia.ai API")
         ELSE ErrorResponse(500, "Internal server error")

\* an answer of the generation endpoint, or the exception raised instead
Answer(kind, status, exception, result) ==
    [kind |-> kind, status |-> status, exception |-> exception, result |-> result]

\* the handler's return for an answer it does not process further: an exception,
\* a non-success status (passed on as the status of the response), a body that
\* is not JSON, a body without a usable result
generation_failure(ep, ans) ==
    IF ans.kind = "exception" THEN on_exception(ans.exception)
    ELSE IF ~is_success(ans.status)
         THEN ErrorResponse(ans.status, "Airia.ai API error")
    ELSE IF ans.kind = "not_json"
         THEN ErrorResponse(500, "Failed to parse API response as JSON")
    ELSE IF ep = "generateQuiz"
         THEN ErrorResponse(500, "No result found in API response")
         ELSE ErrorResponse(500, "Invalid API response: missing or incomplete result array")

\* only the key looked at
config_missing_key_only(ep) ==
    ~config.AIRIA_API_KEY

\* "if not AIRIA_API_KEY or not <url> or not AIRIA_USER_ID"
config_missing(ep) ==
    \/ ~config.AIRIA_API_KEY
    \/ ~config.AIRIA_USER_ID
    \/ IF ep = "generateQuiz" THEN ~config.AIRIA_QUIZ_API_URL ELSE ~config.AIRIA_API_URL

\* one outbound call
Call(to, body) == [to |-> to, body |-> body]

\* the handler from the configuration check to "await client.post(...)": the
\* 500 of a missing setting, or the generation call issued with prompt p
CheckAndSend(p) ==
    IF config_missing(endpoint)
    THEN /\ response' = ErrorResponse(500, "Server configuration error: Missing API credentials")
         /\ pc' = "done"
         /\ calls' = calls
    ELSE /\ response' = response
         /\ pc' = "awaiting"
         /\ calls' = Append(calls, Call("generation", p))

\* ------------------------------------------- generate_lesson, its calls

\* the context appended also when the query gave no answer
enhanced_prompt_of_always(userInput, q) ==
    [userInput |-> userInput,
     context |-> IF HasAnswer(q) THEN q.value ELSE <<"None">>]

\* enhanced_prompt: the userInput alone (an empty context), or followed by
\* "\n\nRelevant past learning context:\n" and the answer
enhanced_prompt_of(userInput, q) ==
    IF HasAnswer(q)
    THEN [userInput |-> userInput, context |-> q.value]
    ELSE [userInput |-> userInput, context |-> <<>>]

\* "if request.user_id:"
HasUserId == request.user_id # NoText /\ request.user_id # ""

\* generate_lesson up to its first await: the ingest call with a user_id, else
\* the generation call (or the 500 of a missing setting)
StartLesson ==
    /\ endpoint = "generateLesson"
    /\ pc = "start"
    /\ IF HasUserId
       THEN /\ calls' = Append(calls, Call("ingest", [user_id |-> request.user_id,
                                                      topic |-> request.userInput]))
            /\ pc' = "ingest"
            /\ UNCHANGED <<prompt, response>>
       ELSE /\ prompt' = [userInput |-> request.userInput, context |-> <<>>]
            /\ CheckAndSend(prompt')
    /\ UNCHANGED <<data, trace, request, chunks, combined, endpoint, config, fastino, answer>>
    /\ UNCHANGED serverVars

\* the ingest call returns; whatever it returns is logged and the query call is
\* issued
LessonIngestReturns ==
    /\ endpoint = "generateLesson"
    /\ pc = "ingest"
    /\ \E o \in IngestOutcomes :
        fastino' = [fastino EXCEPT !.ingest = o,
                                   !.ingest_success = ingest_lesson(o).value]
    /\ calls' = Append(calls, Call("query", [user_id |-> request.user_id,
                                             about |-> request.userInput]))
    /\ pc' = "query"
    /\ UNCHANGED <<data, trace, response, request, chunks, combined, endpoint,
                   config, prompt, answer>>
    /\ UNCHANGED serverVars

\* the query call returns: the prompt is built and the generation call issued
LessonQueryReturns ==
    /\ endpoint = "generateLesson"
    /\ pc = "query"
    /\ \E o \in QueryOutcomes, text \in QueryAnswers :
        /\ o # "answer" => text = CHOOSE t \in QueryAnswers : TRUE
        /\ fastino' = [fastino EXCEPT !.query = o]
        /\ prompt' = enhanced_prompt_of(request.userInput, query_fastino(o, text))
    /\ CheckAndSend(prompt')
    /\ UNCHANGED <<data, trace, request, chunks, combined, endpoint, config, answer>>
    /\ UNCHANGED serverVars

\* ":" and ",", characters outside the base64 alphabet
Colon == 66
Comma == 67
\* "data:"
DataPrefix == <<29, 26, 45, 26, Colon>>
\* "data:a," followed by s: a data URI whose payload is s
DataUri(s) == DataPrefix \o <<26, Comma>> \o s

\* str.startswith
startswith(s, prefix) ==
    Len(s) >= Len(prefix) /\ SubSeq(s, 1, Len(prefix)) = prefix

\* s.split(",")[1]: the text between the first comma and the next one (or the
\* end); a Python IndexError, here the empty text, when s has no comma
split_comma_1(s) ==
    LET commas == {i \in DOMAIN s : s[i] = Comma}
        first == CHOOSE i \in commas : \A j \in commas : i <= j
        later == {i \in commas : i > first}
        stop == IF later = {} THEN Len(s) + 1
                ELSE CHOOSE i \in later : \A j \in later : i <= j
    IN  IF commas = {} THEN <<>> ELSE SubSeq(s, first + 1, stop - 1)

\* decode_audio_base64 of the audio test, its first step: the data-URI prefix
\* of a single string removed
strip_data_uri(audio_base64) ==
    IF startswith(audio_base64, DataPrefix) THEN split_comma_1(audio_base64)
    ELSE audio_base64

\* what the generation endpoint may answer to the lesson call: the outputs of
\* the two steps with or without a topic, in either slot order
TopicAudioOutputs ==
    {Output("text", t, "list", l) :
        t \in {NoText, "", "Audio topic"},
        l \in {<<Seg(1, AStr(B64A), NoText, NoText, None)>>,
               <<Seg(1, AStr(DataUri(B64A)), NoText, NoText, None)>>,
               <<Seg(1, AList(<<BadChunk>>), NoText, NoText, None)>>}}
    \cup {Output("missing", NoText, "absent", <<>>)}

TopicContentOutputs ==
    {Output("dict", t, "list", l) :
        t \in {NoText, "", "Content topic"},
        l \in {<<Seg(1, NoAudio, "Hello", "http://x/1.png", 5)>>,
               <<Seg(2, NoAudio, "World", "http://x/2.png", 7)>>,
               <<Seg(1, AStr(B64B), "Hello", "http://x/1.png", 5)>>}}
    \cup {Output("dict", NoText, "notlist", <<>>)}

LessonAnswers ==
    {Answer("exception", 0, e, <<>>) : e \in Exceptions}
    \cup {Answer("status", s, "", <<>>) : s \in ErrorStatuses}
    \cup {Answer("not_json", 200, "", <<>>), Answer("no_result", 200, "", <<>>)}
    \cup {Answer("result", 200, "", r) :
            r \in {<<a, c>> : a \in TopicAudioOutputs, c \in TopicContentOutputs}
                  \cup {<<c, a>> : a \in TopicAudioOutputs, c \in TopicContentOutputs}}

\* "await client.post(...)" returns or raises: the handler returns an error, or
\* holds a result array of two slots
LessonGenerationReturns ==
    /\ endpoint = "generateLesson"
    /\ pc = "awaiting"
    /\ \E ans \in LessonAnswers :
        /\ answer' = ans
        /\ IF ans.kind = "result"
           THEN /\ data' = ans.result
                /\ pc' = "received"
                /\ response' = response
           ELSE /\ data' = data
                /\ pc' = "done"
                /\ response' = generation_failure(endpoint, ans)
    /\ UNCHANGED <<trace, request, chunks, combined, endpoint, config, fastino,
                   prompt, calls>>
    /\ UNCHANGED serverVars

\* ------------------------------------------------------- generate_quiz

\* str.lower() on the characters the model uses
ToLower(c) ==
    CASE c = "B" -> "b"
      [] c = "L" -> "l"
      [] c = "P" -> "p"
      [] OTHER -> c

lower(s) == [i \in 1..Len(s) |-> ToLower(s[i])]

\* str.strip(): leading and trailing blanks removed
RECURSIVE strip(_)
strip(s) ==
    IF Len(s) = 0 THEN s
    ELSE IF Head(s) = " " THEN strip(Tail(s))
    ELSE IF s[Len(s)] = " " THEN strip(SubSeq(s, 1, Len(s) - 1))
    ELSE s

\* correct_answer_index before a match is found
NotFound == -1

\* options.index(x): the 0-based index of the first element equal to x, NotFound
\* where it raises ValueError
RECURSIVE list_index(_, _, _)
list_index(options, x, i) ==
    IF i >= Len(options) THEN NotFound
    ELSE IF options[i + 1] = x THEN i
    ELSE list_index(options, x, i + 1)

\* the loop over enumerate(options) of the case-insensitive match
RECURSIVE loose_index(_, _, _)
loose_index(options, correct_answer_text, i) ==
    IF i >= Len(options) THEN NotFound
    ELSE IF strip(lower(options[i + 1])) = strip(lower(correct_answer_text)) THEN i
    ELSE loose_index(options, correct_answer_text, i + 1)

\* an unmatched answer resolved to the first option
correct_answer_index_of_default_first(options, correct_answer_text) ==
    LET exact == list_index(options, correct_answer_text, 0)
        loose == loose_index(options, correct_answer_text, 0)
    IN  IF exact # NotFound THEN exact
        ELSE IF loose # NotFound THEN loose ELSE 0

\* the two matches tried in the other order
correct_answer_index_of_loose_first(options, correct_answer_text) ==
    LET loose == loose_index(options, correct_answer_text, 0)
    IN  IF loose # NotFound THEN loose
        ELSE list_index(options, correct_answer_text, 0)

\* correct_answer_index: the exact match, and in its ValueError handler the
\* case-insensitive one
correct_answer_index_of(options, correct_answer_text) ==
    LET exact == list_index(options, correct_answer_text, 0)
    IN  IF exact # NotFound THEN exact
        ELSE loose_index(options, correct_answer_text, 0)

\* one entry of the upstream quiz array
QuizEntry(question, options, correct_answer) ==
    [question |-> question, options |-> options, correct_answer |-> correct_answer]

\* the loop that formats the questions, idx counting from 0
RECURSIVE format_loop(_, _, _)
format_loop(quiz_array, idx, formatted_questions) ==
    IF idx >= Len(quiz_array) THEN formatted_questions
    ELSE LET question_data == quiz_array[idx + 1]
             correct_answer_index ==
                 correct_answer_index_of(question_data.options,
                                         question_data.correct_answer)
         IN  format_loop(quiz_array, idx + 1,
                IF correct_answer_index = NotFound THEN formatted_questions
                ELSE Append(formatted_questions,
                        [id |-> idx + 1,
                         question |-> question_data.question,
                         options |-> question_data.options,
                         correctAnswer |-> correct_answer_index]))

formatted_questions_of(quiz_array) == format_loop(quiz_array, 0, <<>>)

\* data["result"] of the quiz endpoint: missing or empty, a string holding the
\* JSON inside a ```json fence, a string holding it bare, or a structured value.
\* json_ok tells whether json.loads accepts the candidate text; quizkind and
\* quiz are the "quiz" field of the parsed value.
QuizResult(kind, json_ok, quizkind, quiz) ==
    [kind |-> kind, json_ok |-> json_ok, quizkind |-> quizkind, quiz |-> quiz]

\* the handler from data.get("result") to its return
quiz_response(result_value) ==
    IF result_value.kind = "missing"
    THEN ErrorResponse(500, "No result found in API response")
    ELSE IF ~result_value.json_ok
    THEN ErrorResponse(500, "Failed to parse quiz JSON")
    ELSE IF result_value.quizkind # "list" \/ Len(result_value.quiz) = 0
    THEN ErrorResponse(500, "No 'quiz' array found in response")
    ELSE LET formatted_questions == formatted_questions_of(result_value.quiz)
         IN  IF Len(formatted_questions) = 0
             THEN ErrorResponse(500, "No valid questions found in quiz")
             ELSE [status |-> 200, error |-> "", headers |-> AllowOrigin,
                   questions |-> formatted_questions]

\* answer.find(pattern): the 0-based position of the heading, NotFound without it
RECURSIVE find(_, _, _)
find(text, pattern, i) ==
    IF i >= Len(text) THEN NotFound
    ELSE IF text[i + 1] = pattern THEN i
    ELSE find(text, pattern, i + 1)

\* user_pref_context: what follows the heading in the answer, the whole answer
\* without the heading, "" without an answer
user_pref_context_of(q) ==
    IF ~HasAnswer(q) THEN <<>>
    ELSE LET pattern_index == find(q.value, KeyObservations, 0)
         IN  IF pattern_index # NotFound
             THEN SubSeq(q.value, pattern_index + 2, Len(q.value))
             ELSE q.value

\* generate_quiz up to its first await
StartQuiz ==
    /\ endpoint = "generateQuiz"
    /\ pc = "start"
    /\ IF HasUserId
       THEN /\ calls' = Append(calls, Call("query", [user_id |-> request.user_id,
                                                     about |-> request.userInput]))
            /\ pc' = "query"
            /\ UNCHANGED <<prompt, response>>
       ELSE /\ prompt' = [userInput |-> request.userInput, context |-> <<>>]
            /\ CheckAndSend(prompt')
    /\ UNCHANGED <<data, trace, request, chunks, combined, endpoint, config, fastino, answer>>
    /\ UNCHANGED serverVars

\* the query call returns: the payload is built and the generation call issued
QuizQueryReturns ==
    /\ endpoint = "generateQuiz"
    /\ pc = "query"
    /\ \E o \in QueryOutcomes, text \in QueryAnswers :
        /\ o # "answer" => text = CHOOSE t \in QueryAnswers : TRUE
        /\ fastino' = [fastino EXCEPT !.query = o]
        /\ prompt' = [userInput |-> request.userInput,
                      context |-> user_pref_context_of(query_fastino(o, text))]
    /\ CheckAndSend(prompt')
    /\ UNCHANGED <<data, trace, request, chunks, combined, endpoint, config, answer>>
    /\ UNCHANGED serverVars

\* texts of the quiz entries, as sequences of characters
Paris == <<"P", "a", "r", "i", "s">>
London == <<"L", "o", "n", "d", "o", "n">>
Berlin == <<"B", "e", "r", "l", "i", "n">>

\* entries of the upstream quiz array: the answer found exactly, found only
\* case-insensitively, found exactly behind a case-insensitive match, found
\* case-insensitively in two options, not found, and an entry without options
QuizEntries ==
    {QuizEntry("Capital of Germany?", <<Paris, London, Berlin>>, Berlin),
     QuizEntry("Capital of Germany?", <<Paris, London, Berlin>>, lower(Berlin)),
     QuizEntry("Capital of Germany?", <<lower(Berlin) \o <<" ">>, Berlin>>, Berlin),
     QuizEntry("Capital of Germany?", <<Paris, lower(Berlin), Berlin>>, <<" ">> \o Berlin),
     QuizEntry("Capital of Germany?", <<Paris, London>>, Berlin),
     QuizEntry("Capital of Germany?", <<>>, Berlin)}

QuizResults ==
    {QuizResult("missing", FALSE, "absent", <<>>),
     QuizResult("fenced", FALSE, "absent", <<>>),
     QuizResult("plain", FALSE, "absent", <<>>),
     QuizResult("fenced", TRUE, "absent", <<>>),
     QuizResult("dict", TRUE, "notlist", <<>>)}
    \cup {QuizResult(k, TRUE, "list", q) :
            k \in {"fenced", "plain", "dict"}, q \in SeqsUpTo(QuizEntries, MaxQuestions)}

QuizAnswers ==
    {Answer("exception", 0, e, <<>>) : e \in Exceptions}
    \cup {Answer("status", s, "", <<>>) : s \in ErrorStatuses}
    \cup {Answer("not_json", 200, "", <<>>)}
    \cup {Answer("result", 200, "", r) : r \in QuizResults}

\* "await client.post(...)" returns or raises, and the handler runs to its return
QuizGenerationReturns ==
    /\ endpoint = "generateQuiz"
    /\ pc = "awaiting"
    /\ \E ans \in QuizAnswers :
        /\ answer' = ans
        /\ response' = IF ans.kind = "result" THEN quiz_response(ans.result)
                       ELSE generation_failure(endpoint, ans)
    /\ pc' = "done"
    /\ UNCHANGED <<data, trace, request, chunks, combined, endpoint, config, fastino,
                   prompt, calls>>
    /\ UNCHANGED serverVars

\* ------------------------------------------- the two handlers, end to end

\* the settings: all present, or one of them missing
Configs ==
    {[AIRIA_API_KEY |-> k, AIRIA_API_URL |-> u, AIRIA_QUIZ_API_URL |-> q,
      AIRIA_USER_ID |-> i] :
        k \in BOOLEAN, u \in BOOLEAN, q \in BOOLEAN, i \in BOOLEAN}

Requests ==
    {[userInput |-> "photosynthesis", user_id |-> u] : u \in {NoText, "", "user-1"}}

InitApi ==
    /\ pc = "start"
    /\ endpoint \in {"generateLesson", "generateQuiz"}
    /\ request \in Requests
    /\ config \in {c \in Configs :
                    Cardinality({f \in DOMAIN c : ~c[f]}) <= 1}
    /\ data = <<>>
    /\ trace = NoTrace
    /\ response = Idle
    /\ chunks = <<>>
    /\ combined = [state |-> "idle", ok |-> FALSE, b64 |-> <<>>]
    /\ fastino = NoFastino
    /\ prompt = NoPrompt
    /\ calls = <<>>
    /\ answer = NoAnswer
    /\ frames = <<>>
    /\ now = 0

NextApi ==
    \/ StartLesson
    \/ LessonIngestReturns
    \/ LessonQueryReturns
    \/ LessonGenerationReturns
    \/ ProcessResult
    \/ StartQuiz
    \/ QuizQueryReturns
    \/ QuizGenerationReturns

SpecApi == InitApi /\ [][NextApi]_vars

\* ------------------------------------------- role detection on long lists

\* the audio_base64 of a record of a long list: a string, an empty string, or
\* no such field
LongAudio == {AStr(B64A), AStr(<<>>), NoAudio}

\* lists of up to MaxRecords records, numbered by position
LongLists ==
    UNION {{[i \in 1..n |-> Seg(i, f[i], NoText, NoText, None)] :
                f \in [1..n -> LongAudio]} : n \in 1..MaxRecords}

\* the content list that goes with them
LongContent ==
    [i \in 1..MaxRecords |-> Seg(i, NoAudio, "Hello", "http://x/1.png", 5)]

\* "await client.post(...)" returns two well-formed outputs, one of them a long
\* list, in either slot order
ReceiveLongResult ==
    /\ pc = "awaiting"
    /\ \E l \in LongLists, swapped \in BOOLEAN :
        LET a == Output("text", NoText, "list", l)
            c == Output("dict", NoText, "list", LongContent)
        IN  data' = IF swapped THEN <<c, a>> ELSE <<a, c>>
    /\ pc' = "received"
    /\ UNCHANGED <<trace, response, request, chunks, combined>>
    /\ UNCHANGED apiVars
    /\ UNCHANGED serverVars

NextDetect == SendGeneration \/ ReceiveLongResult \/ ProcessResult

SpecDetect == Init /\ [][NextDetect]_vars

\* ------------------------------------ the server, two requests in flight

\* latest reading of the clock
MaxClock == 2

\* the two requests
Slots == {1, 2}

\* the names that "from fastino_client import register_user, ingest_lesson as
\* ingest_lesson_fastino, ingest_quiz, query_fastino" binds in main.py
ModuleNames == {"register_user", "ingest_lesson_fastino", "ingest_quiz", "query_fastino"}

IngestDataResponse(success, message) == [success |-> success, message |-> message]

\* doc_id = f"lesson_{int(time.time() * 1000)}" and f"quiz_{int(time.time() * 1000)}"
doc_id_of(kind, t) == <<kind, t>>

\* the body of the ingest call that ingest_lesson and ingest_quiz post
IngestCall(user_id, topic, doc_id) ==
    [user_id |-> user_id, topic |-> topic, doc_id |-> doc_id]

\* ingest_quiz: every failure is caught inside and becomes False
ingest_quiz(outcome) == [raised |-> FALSE, value |-> outcome = "success"]

\* one request object that every handler call reads
handler_request_shared(fs, i) == fs[1].request

\* the handler's parameter "request", a local of the call
handler_request(fs, i) == fs[i].request

NoQuery == [raised |-> FALSE, value |-> NoneText]

\* the locals of a handler call that has not run yet.  ingests are the ingest
\* calls it posted and ingest what the service did with them; overlapped is
\* set once the call takes a step while the other call is between its first
\* and its last step.
NewFrame(ep, req) ==
    [endpoint |-> ep, pc |-> "start", request |-> req, ingests |-> <<>>,
     ingest |-> "none", query |-> NoQuery, prompt |-> NoPrompt, answer |-> NoAnswer,
     response |-> Idle, overlapped |-> FALSE]

\* the userInput (for the ingest routes, the topic) of the two requests
UserInputs == <<"photosynthesis", "gravity">>

\* a lesson request with or without a user_id, or a request to one of the two
\* ingest routes
FramesOf(i) ==
    {NewFrame("generateLesson", [userInput |-> UserInputs[i], user_id |-> u]) :
        u \in {NoText, "user-1"}}
    \cup {NewFrame(ep, [userInput |-> UserInputs[i], user_id |-> "user-1"]) :
            ep \in {"fastinoIngestLesson", "fastinoIngestQuiz"}}

\* what the generation endpoint may answer: a failure, or two outputs of which
\* the content output has a topic or not
TwoAnswers ==
    {Answer("exception", 0, "ReadTimeout", <<>>),
     Answer("status", 503, "", <<>>),
     Answer("not_json", 200, "", <<>>)}
    \cup {Answer("result", 200, "",
                 <<Output("text", NoText, "list", <<Seg(1, AStr(B64A), NoText, NoText, None)>>),
                   Output("dict", t, "list",
                          <<Seg(1, NoAudio, "Hello", "http://x/1.png", 5)>>)>>) :
            t \in {NoText, "Content topic"}}

InitTwo ==
    /\ pc = "server"
    /\ request = [userInput |-> "", user_id |-> NoText]
    /\ data = <<>>
    /\ trace = NoTrace
    /\ response = Idle
    /\ chunks = <<>>
    /\ combined = [state |-> "idle", ok |-> FALSE, b64 |-> <<>>]
    /\ endpoint = "none"
    /\ config = [AIRIA_API_KEY |-> TRUE, AIRIA_API_URL |-> TRUE,
                 AIRIA_QUIZ_API_URL |-> TRUE, AIRIA_USER_ID |-> TRUE]
    /\ fastino = NoFastino
    /\ prompt = NoPrompt
    /\ calls = <<>>
    /\ answer = NoAnswer
    /\ frames \in {fs \in [Slots -> UNION {FramesOf(i) : i \in Slots}] :
                      \A i \in Slots : fs[i] \in FramesOf(i)}
    /\ now = 0

\* the other call is between its first and its last step
OtherInFlight(i) == \E j \in Slots \ {i} : frames[j].pc \notin {"start", "done"}

\* one step of call i, which leaves the locals of the other call alone
Step(i, f) ==
    /\ frames' = [frames EXCEPT ![i] = [f EXCEPT !.overlapped = @ \/ OtherInFlight(i)]]
    /\ UNCHANGED <<pc, data, trace, response, request, chunks, combined, now>>
    /\ UNCHANGED apiVars

\* time passes
Tick ==
    /\ now < MaxClock
    /\ now' = now + 1
    /\ UNCHANGED <<pc, data, trace, response, request, chunks, combined, frames>>
    /\ UNCHANGED apiVars

\* the configuration check and "await client.post(...)" with prompt p
send_generation(f, p) ==
    IF config_missing(f.endpoint)
    THEN [f EXCEPT !.pc = "done",
                   !.response = ErrorResponse(500,
                        "Server configuration error: Missing API credentials")]
    ELSE [f EXCEPT !.pc = "awaiting", !.prompt = p]

\* generate_lesson up to its first await: ingest_lesson computes the doc_id
\* from the clock and posts the ingest call
LessonStarts ==
    \E i \in Slots :
        LET f == frames[i]
            req == handler_request(frames, i)
        IN  /\ f.endpoint = "generateLesson" /\ f.pc = "start"
            /\ Step(i, IF req.user_id # NoText /\ req.user_id # ""
                       THEN [f EXCEPT !.pc = "ingest",
                                      !.ingests = Append(@, IngestCall(req.user_id,
                                            req.userInput, doc_id_of("lesson", now)))]
                       ELSE send_generation(f, [userInput |-> req.userInput,
                                                context |-> <<>>]))

\* the ingest call of a lesson request returns; what it returns is logged and
\* the query call is posted
LessonIngestDone ==
    \E i \in Slots :
        LET f == frames[i]
        IN  /\ f.endpoint = "generateLesson" /\ f.pc = "ingest"
            /\ Step(i, [f EXCEPT !.pc = "query"])

\* the query call returns: the prompt is built and the generation call posted
LessonQueryDone ==
    \E i \in Slots, o \in QueryOutcomes, text \in QueryAnswers :
        LET f == frames[i]
            req == handler_request(frames, i)
            q == query_fastino(o, text)
        IN  /\ f.endpoint = "generateLesson" /\ f.pc = "query"
            /\ Step(i, send_generation([f EXCEPT !.query = q],
                                       enhanced_prompt_of(req.userInput, q)))

\* the generation call returns and the handler runs to its return
LessonAnswered ==
    \E i \in Slots, ans \in TwoAnswers :
        LET f == frames[i]
            req == handler_request(frames, i)
        IN  /\ f.endpoint = "generateLesson" /\ f.pc = "awaiting"
            /\ Step(i, [f EXCEPT !.pc = "done", !.answer = ans,
                                 !.response = IF ans.kind = "result"
                                              THEN process_result(ans.result, req).response
                                              ELSE generation_failure(f.endpoint, ans)])

\* fastino_ingest_lesson up to "await ingest_lesson(request.user_id,
\* request.topic)": a name that main.py does not bind raises NameError, which
\* the handler's "except Exception" turns into its answer
IngestLessonStarts ==
    \E i \in Slots :
        LET f == frames[i]
            req == handler_request(frames, i)
        IN  /\ f.endpoint = "fastinoIngestLesson" /\ f.pc = "start"
            /\ Step(i, IF "ingest_lesson" \in ModuleNames
                       THEN [f EXCEPT !.pc = "ingest",
                                      !.ingests = Append(@, IngestCall(req.user_id,
                                            req.userInput, doc_id_of("lesson", now)))]
                       ELSE [f EXCEPT !.pc = "done",
                                      !.response = IngestDataResponse(FALSE,
                                            "Internal server error")])

\* fastino_ingest_quiz up to "await ingest_quiz(...)"
IngestQuizStarts ==
    \E i \in Slots :
        LET f == frames[i]
            req == handler_request(frames, i)
        IN  /\ f.endpoint = "fastinoIngestQuiz" /\ f.pc = "start"
            /\ Step(i, IF "ingest_quiz" \in ModuleNames
                       THEN [f EXCEPT !.pc = "ingest",
                                      !.ingests = Append(@, IngestCall(req.user_id,
                                            req.userInput, doc_id_of("quiz", now)))]
                       ELSE [f EXCEPT !.pc = "done",
                                      !.response = IngestDataResponse(FALSE,
                                            "Internal server error")])

\* the ingest call of an ingest route returns and the handler answers
IngestDone ==
    \E i \in Slots, o \in IngestOutcomes :
        LET f == frames[i]
            lesson == f.endpoint = "fastinoIngestLesson"
            success == IF lesson THEN ingest_lesson(o).value ELSE ingest_quiz(o).value
        IN  /\ f.endpoint \in {"fastinoIngestLesson", "fastinoIngestQuiz"}
            /\ f.pc = "ingest"
            /\ Step(i, [f EXCEPT
                    !.pc = "done", !.ingest = o,
                    !.response =
                        IF success /\ lesson
                        THEN IngestDataResponse(TRUE, "Lesson data ingested successfully")
                        ELSE IF success
                        THEN IngestDataResponse(TRUE, "Quiz data ingested successfully")
                        ELSE IF lesson
                        THEN IngestDataResponse(FALSE, "Failed to ingest lesson data")
                        ELSE IngestDataResponse(FALSE, "Failed to ingest quiz data")])

NextTwo ==
    \/ Tick
    \/ LessonStarts
    \/ LessonIngestDone
    \/ LessonQueryDone
    \/ LessonAnswered
    \/ IngestLessonStarts
    \/ IngestQuizStarts
    \/ IngestDone

SpecTwo == InitTwo /\ [][NextTwo]_vars

\* ------------------------------------------------------------------ claims

\* the handler has returned
Done == pc = "done"

\* both outputs parsed and both segments fields are non-empty lists: the handler
\* got as far as role detection
ShapeOk ==
    /\ Done
    /\ \A i \in 1..2 :
        /\ data[i].kind \in {"text", "dict"}
        /\ data[i].segkind = "list"
        /\ Len(data[i].seglist) > 0

\* the identifiers a segment list carries
IdsOf(segs) == {segs[i].segment_id : i \in DOMAIN segs} \ {None}

IdsOfResponse == {response.segments[i].segment_id : i \in DOMAIN response.segments}

\* C1: in every 200 response the segments are in strictly ascending segment_id
\* order, so no identifier appears twice.
C1_StrictlyAscending ==
    response.status = 200 =>
        \A i \in 1..(Len(response.segments) - 1) :
            response.segments[i].segment_id < response.segments[i + 1].segment_id

\* a 200 response with two segments whose records came in descending order in
\* both upstream lists
C1_Witness ==
    /\ response.status = 200
    /\ Len(response.segments) = 2
    /\ Len(trace.audio_segments) = 2
    /\ trace.audio_segments[1].segment_id > trace.audio_segments[2].segment_id
    /\ Len(trace.content_segments) = 2
    /\ trace.content_segments[1].segment_id > trace.content_segments[2].segment_id

\* the audio string a record holds once its chunks are combined: <<>> when it
\* has none
UsableAudio(seg) ==
    IF seg.audio_base64.kind = "str" THEN seg.audio_base64.str
    ELSE IF seg.audio_base64.kind = "list"
              /\ \A k \in DOMAIN seg.audio_base64.chunks :
                    b64decode(seg.audio_base64.chunks[k]).ok
         THEN b64encode(Join([k \in DOMAIN seg.audio_base64.chunks |->
                                b64decode(seg.audio_base64.chunks[k]).bytes]))
         ELSE <<>>

\* the records of an identifier that carry a populated string or chunk list
AudioRecordsOf(segs, id) ==
    {i \in DOMAIN segs :
        /\ segs[i].segment_id = id
        /\ \/ segs[i].audio_base64.kind = "str" /\ Len(segs[i].audio_base64.str) > 0
           \/ segs[i].audio_base64.kind = "list" /\ Len(segs[i].audio_base64.chunks) > 0}

Last(S) == CHOOSE i \in S : \A j \in S : j <= i

\* the identifiers whose last audio-carrying record gives a non-empty string
UsableAudioIds(segs) ==
    {id \in IdsOf(segs) :
        /\ AudioRecordsOf(segs, id) # {}
        /\ Len(UsableAudio(segs[Last(AudioRecordsOf(segs, id))])) > 0}

Perms(s) ==
    {p \in [DOMAIN s -> DOMAIN s] : \A i, j \in DOMAIN s : p[i] = p[j] => i = j}

Permuted(s, p) == [i \in DOMAIN s |-> s[p[i]]]

\* no identifier is carried by two records of the list
DistinctIds(segs) ==
    \A i, j \in DOMAIN segs :
        (i # j /\ segs[i].segment_id = segs[j].segment_id) => segs[i].segment_id = None

\* merging the two role lists in every order of their records gives what the
\* handler computed
SameInEveryOrder ==
    \A pa \in Perms(trace.audio_segments), pb \in Perms(trace.content_segments) :
        LET m == merge(Permuted(trace.audio_segments, pa),
                       Permuted(trace.content_segments, pb))
        IN  /\ m.raised = trace.merged.raised
            /\ m.valid_segments = trace.merged.valid_segments

\* C3 as stated: permuting the records inside the audio list or inside the
\* content list before merging yields exactly the same merged output.
C3_Original ==
    (Done /\ trace.stage = "merge") => SameInEveryOrder

\* C3, amended: when no identifier occurs twice within a list, permuting the
\* records inside the audio list or inside the content list before merging
\* yields exactly the same merged output.
C3_MergeOrderIndependent ==
    (Done /\ trace.stage = "merge"
          /\ DistinctIds(trace.audio_segments) /\ DistinctIds(trace.content_segments))
        => SameInEveryOrder

\* two records with distinct identifiers in each list, both merged
C3_Witness ==
    /\ response.status = 200
    /\ Len(response.segments) = 2
    /\ Len(trace.audio_segments) = 2 /\ DistinctIds(trace.audio_segments)
    /\ Len(trace.content_segments) = 2 /\ DistinctIds(trace.content_segments)
    /\ response.segments[1].narration # response.segments[2].narration

\* a chunk list of the record holds a chunk that b64decode rejects
HasBadChunk(seg) ==
    /\ seg.audio_base64.kind = "list"
    /\ \E k \in DOMAIN seg.audio_base64.chunks : ~b64decode(seg.audio_base64.chunks[k]).ok

\* C4 as stated: a chunk that is not valid base64 excludes its own segment only;
\* the request still returns 200 with the other segments when another
\* identifier has valid audio and a content counterpart.
C4_Claim ==
    (ShapeOk /\ trace.audio_result_index # None) =>
        \A i \in DOMAIN trace.audio_segments :
            LET bad == trace.audio_segments[i]
                others == (UsableAudioIds(trace.audio_segments)
                            \cap IdsOf(trace.content_segments)) \ {bad.segment_id}
            IN  (HasBadChunk(bad) /\ bad.segment_id # None /\ others # {}) =>
                    /\ response.status = 200
                    /\ others \subseteq IdsOfResponse

\* C5 as stated (chunks holds the byte strings b1..bn, each sent encoded on its
\* own): the combined string decodes to b1 ++ ... ++ bn, and that differs from
\* decoding the concatenation of the base64 strings.
C5_Original ==
    combined.state = "done" =>
        /\ combined.ok
        /\ b64decode(combined.b64) = [ok |-> TRUE, bytes |-> Join(chunks)]
        /\ b64decode(Join(EncodedChunks(chunks))) # [ok |-> TRUE, bytes |-> Join(chunks)]

\* a chunk that ends in padding is followed by a chunk that holds bytes
PaddingInside ==
    \E i, j \in DOMAIN chunks :
        i < j /\ Len(chunks[i]) % 3 # 0 /\ Len(chunks[j]) > 0

\* C5, amended: the combined string decodes to exactly b1 ++ ... ++ bn in list
\* order, and that differs from decoding the concatenation of the base64 strings
\* exactly when a chunk whose byte length is not a multiple of 3 is followed by
\* a non-empty chunk.
C5_ChunkRecombination ==
    combined.state = "done" =>
        /\ combined.ok
        /\ b64decode(combined.b64) = [ok |-> TRUE, bytes |-> Join(chunks)]
        /\ (b64decode(Join(EncodedChunks(chunks))) # [ok |-> TRUE, bytes |-> Join(chunks)])
              <=> PaddingInside

\* three non-empty chunks, the first ending in padding, combined
C5_Witness ==
    /\ combined.state = "done"
    /\ Len(chunks) = 3
    /\ \A i \in 1..3 : Len(chunks[i]) > 0
    /\ Len(chunks[1]) % 3 # 0
    /\ b64decode(combined.b64).bytes = chunks[1] \o chunks[2] \o chunks[3]
    /\ b64decode(Join(EncodedChunks(chunks))).bytes = chunks[1]

\* one of the sampled records of the list has a populated audio_base64
HasSampledAudio(segs) ==
    \E i \in DOMAIN segs :
        /\ i <= SampleSize
        /\ segs[i].audio_base64.kind # "absent"
        /\ segs[i].audio_base64.str # <<>> \/ segs[i].audio_base64.chunks # <<>>
           \/ segs[i].audio_base64.kind = "other"

\* C6: when exactly one of the two lists has sampled audio, that list is the
\* audio list and the other the content list, in result[0] as in result[1].
C6_RoleSymmetry ==
    (ShapeOk /\ HasSampledAudio(data[1].seglist) # HasSampledAudio(data[2].seglist)) =>
        LET withAudio == IF HasSampledAudio(data[1].seglist)
                         THEN data[1].seglist ELSE data[2].seglist
            without == IF HasSampledAudio(data[1].seglist)
                       THEN data[2].seglist ELSE data[1].seglist
            swapped == roles_of(data[2].seglist, data[1].seglist)
        IN  /\ trace.audio_segments = withAudio
            /\ trace.content_segments = without
            /\ swapped.audio_segments = withAudio
            /\ swapped.content_segments = without

\* the audio list arrived in result[1] and the lesson was served
C6_Witness ==
    /\ ShapeOk
    /\ ~HasSampledAudio(data[1].seglist)
    /\ HasSampledAudio(data[2].seglist)
    /\ trace.audio_result_index = 1
    /\ response.status = 200

\* C7: when both lists have sampled audio the request is not rejected:
\* result[0] is the audio list, result[1] the content list, and the merge runs.
C7_BothHaveAudio ==
    (ShapeOk /\ HasSampledAudio(data[1].seglist) /\ HasSampledAudio(data[2].seglist)) =>
        /\ trace.stage = "merge"
        /\ trace.audio_result_index = 0
        /\ trace.audio_segments = data[1].seglist
        /\ trace.content_segments = data[2].seglist
        /\ response.status = 200 <=>
              UsableAudioIds(data[1].seglist) \cap IdsOf(data[2].seglist) # {}
                 /\ \A i \in DOMAIN data[1].seglist :
                       ~(HasBadChunk(data[1].seglist[i]) /\ data[1].seglist[i].segment_id # None)

\* both lists carry audio and the lesson is served with the audio of result[0]
C7_Witness ==
    /\ ShapeOk
    /\ HasSampledAudio(data[1].seglist) /\ HasSampledAudio(data[2].seglist)
    /\ response.status = 200
    /\ \E i \in DOMAIN data[1].seglist :
          /\ data[1].seglist[i].audio_base64 = AStr(B64B)
          /\ response.segments[1].audioBase64 = B64B

\* C8: when neither list has sampled audio the request ends with the 500
\* response of role detection and returns no segments.
C8_NoAudioFound ==
    (ShapeOk /\ ~HasSampledAudio(data[1].seglist) /\ ~HasSampledAudio(data[2].seglist)) =>
        /\ response.status = 500
        /\ response.error = "neither result contains audio_base64"
        /\ response.segments = <<>>
        /\ trace.stage = "detect"

\* two well-formed lists, neither with audio
C8_Witness ==
    /\ ShapeOk
    /\ ~HasSampledAudio(data[1].seglist) /\ ~HasSampledAudio(data[2].seglist)
    /\ response.status = 500

\* C9 as stated, its equivalence: once shape checks and role detection pass, the
\* request returns 200 if and only if an identifier has non-empty audio in the
\* audio list and a record in the content list, and 500 otherwise.
C9_Claim ==
    (ShapeOk /\ trace.audio_result_index # None) =>
        IF UsableAudioIds(trace.audio_segments) \cap IdsOf(trace.content_segments) # {}
        THEN response.status = 200
        ELSE response.status = 500

\* the segments field of a parsed output is absent, not a list, or empty
BrokenSegments(o) ==
    /\ o.kind \in {"text", "dict"}
    /\ o.segkind # "list" \/ Len(o.seglist) = 0

\* C10: a parsed output whose segments field is absent, not a list or an empty
\* list, in either slot, fails the request with 500 before role detection and
\* merging; an empty list never gives a served lesson.
C10_SegmentsShape ==
    (Done /\ \E i \in 1..2 : BrokenSegments(data[i])) =>
        /\ response.status = 500
        /\ response.segments = <<>>
        /\ trace.stage = "none"
        /\ (\A i \in 1..2 : data[i].kind \in {"text", "dict"}) =>
              response.error \in {"segments is not a list", "segments is empty"}

\* result[0] is a well-formed audio list and result[1] holds an empty list
C10_Witness ==
    /\ Done
    /\ data[1].segkind = "list" /\ HasSampledAudio(data[1].seglist)
    /\ data[2].kind = "text" /\ data[2].segkind = "list" /\ Len(data[2].seglist) = 0
    /\ response.status = 500

\* a handler has returned an error response
LessonDone == endpoint = "generateLesson" /\ pc = "done"
QuizDone == endpoint = "generateQuiz" /\ pc = "done"

\* C11: every error response of POST /generateLesson has status 500, 503 or 504
\* and a body with an error string, whatever failed, the generation endpoint
\* answering with a non-success status included.
C11_Claim ==
    (LessonDone /\ response.status # 200) =>
        /\ response.status \in {500, 503, 504}
        /\ response.error # ""

\* C12: in both handlers a timeout of the generation call gives 504, never 503,
\* and a transport failure that is not a timeout gives 503.
C12_TimeoutDistinct ==
    (pc = "done" /\ answer.kind = "exception") =>
        /\ answer.exception \in {"ConnectTimeout", "ReadTimeout"}
            => response.status = 504
        /\ answer.exception \in {"ConnectError", "ReadError"}
            => response.status = 503

\* the quiz handler has answered a connect timeout, the timeout closest to a
\* connection failure
C12_Witness ==
    /\ QuizDone
    /\ answer.kind = "exception"
    /\ answer.exception = "ConnectTimeout"
    /\ response.status = 504

\* the generation calls issued so far
GenerationCalls == {i \in DOMAIN calls : calls[i].to = "generation"}

\* C13: whatever the ingest and the query call do, the lesson handler goes on to
\* the generation call and returns no error of its own for them; without an
\* answer of the query the userInput it sends is the request's userInput.
C13_PersonalizationNonFatal ==
    endpoint = "generateLesson" =>
        /\ pc \in {"ingest", "query"} => response = Idle
        /\ (pc \in {"awaiting", "received", "done"} /\ ~config_missing(endpoint))
            => Cardinality(GenerationCalls) = 1
        /\ (pc = "done" /\ answer.kind = "none")
            => /\ config_missing(endpoint)
               /\ response.error = "Server configuration error: Missing API credentials"
        /\ \A i \in GenerationCalls :
            fastino.query # "answer"
                => calls[i].body = [userInput |-> request.userInput, context |-> <<>>]

\* a lesson served although the ingest call timed out and the query call failed
C13_Witness ==
    /\ LessonDone
    /\ fastino.ingest = "timeout"
    /\ fastino.query = "error_status"
    /\ response.status = 200
    /\ \E i \in GenerationCalls : calls[i].body.userInput = request.userInput

\* the quiz handler has returned questions
QuizOk == QuizDone /\ response.status = 200

\* C14: the k-th question of a /generateQuiz response has id k, also when
\* earlier entries of the upstream array were dropped.
C14_Claim ==
    QuizOk => \A k \in DOMAIN response.questions : response.questions[k].id = k

\* the options of an entry equal to its correct answer, and those equal to it
\* after lower-casing and trimming both
ExactIndices(e) == {i \in DOMAIN e.options : e.options[i] = e.correct_answer}
LooseIndices(e) ==
    {i \in DOMAIN e.options : strip(lower(e.options[i])) = strip(lower(e.correct_answer))}

Resolvable(e) == ExactIndices(e) \cup LooseIndices(e) # {}

Minimum(S) == CHOOSE x \in S : \A y \in S : x <= y

\* the 0-based index the answer of a resolvable entry resolves to
ExpectedIndex(e) ==
    IF ExactIndices(e) # {} THEN Minimum(ExactIndices(e)) - 1
    ELSE Minimum(LooseIndices(e)) - 1

\* the resolvable entries of a quiz array, in order
RECURSIVE Kept(_)
Kept(quiz_array) ==
    IF Len(quiz_array) = 0 THEN <<>>
    ELSE (IF Resolvable(Head(quiz_array)) THEN <<Head(quiz_array)>> ELSE <<>>)
         \o Kept(Tail(quiz_array))

\* C15: correctAnswer of an emitted question is the index of the first option
\* equal to correct_answer if there is one, else of the first option equal to it
\* after lower-casing and trimming both; the exact match wins over a
\* case-insensitive match at a lower index.
C15_AnswerResolution ==
    QuizOk =>
        LET kept == Kept(answer.result.quiz) IN
        /\ Len(response.questions) = Len(kept)
        /\ \A k \in DOMAIN response.questions :
            /\ response.questions[k].options = kept[k].options
            /\ response.questions[k].correctAnswer = ExpectedIndex(kept[k])

\* "berlin" resolved to index 2 of Paris, London, Berlin, and "Berlin" resolved
\* to index 1 behind the option "berlin " at index 0
C15_Witness ==
    /\ QuizOk
    /\ Len(response.questions) = 2
    /\ response.questions[1].options = <<Paris, London, Berlin>>
    /\ answer.result.quiz[1].correct_answer = lower(Berlin)
    /\ response.questions[1].correctAnswer = 2
    /\ response.questions[2].options = <<lower(Berlin) \o <<" ">>, Berlin>>
    /\ response.questions[2].correctAnswer = 1

\* C16: every emitted question's correctAnswer is an index into its own options,
\* an entry whose answer matches no option is never emitted, and a quiz array
\* without a resolvable entry gives a 500, not an empty question list.
C16_ValidIndex ==
    (QuizDone /\ answer.kind = "result" /\ answer.result.kind # "missing"
        /\ answer.result.json_ok /\ answer.result.quizkind = "list") =>
        LET quiz == answer.result.quiz
            resolvable == {i \in DOMAIN quiz : Resolvable(quiz[i])}
        IN  IF resolvable = {}
            THEN response.status = 500
            ELSE /\ response.status = 200
                 /\ Len(response.questions) = Cardinality(resolvable)
                 /\ \A k \in DOMAIN response.questions :
                     /\ 0 <= response.questions[k].correctAnswer
                     /\ response.questions[k].correctAnswer
                            < Len(response.questions[k].options)

\* questions returned for an array that also held an unresolvable entry
C16_Witness ==
    /\ QuizOk
    /\ \E i \in DOMAIN answer.result.quiz : ~Resolvable(answer.result.quiz[i])
    /\ Len(response.questions) < Len(answer.result.quiz)

\* the lesson handler has returned a lesson
LessonOk == LessonDone /\ response.status = 200

NonEmptyTopic(o) == o.topic # NoText /\ o.topic # ""

\* C17 as stated: the topic of the first slot that has one, else the userInput
C17_Original ==
    LessonOk =>
        response.topic = IF NonEmptyTopic(data[1]) THEN data[1].topic
                         ELSE IF NonEmptyTopic(data[2]) THEN data[2].topic
                         ELSE request.userInput

\* C17: the topic of a 200 lesson response is the topic of the audio-role
\* output if it has a non-empty one, else that of the content-role output, else
\* the request's userInput, not the prompt enriched by personalization.
C17_TopicByRole ==
    LessonOk =>
        LET a == IF HasSampledAudio(data[1].seglist) THEN data[1] ELSE data[2]
            c == IF HasSampledAudio(data[1].seglist) THEN data[2] ELSE data[1]
        IN  response.topic = IF NonEmptyTopic(a) THEN a.topic
                             ELSE IF NonEmptyTopic(c) THEN c.topic
                             ELSE request.userInput

\* both outputs carry a topic, the audio output sits in the second slot and the
\* prompt was enriched
C17_Witness ==
    /\ LessonOk
    /\ NonEmptyTopic(data[1]) /\ NonEmptyTopic(data[2])
    /\ HasSampledAudio(data[2].seglist)
    /\ response.topic = data[2].topic
    /\ prompt.context # <<>>

\* C18: every segment of a 200 lesson response has an identifier and a
\* non-empty audioBase64, also when chunk lists decode to no byte.
C18_SegmentsValid ==
    (Done /\ response.status = 200) =>
        \A i \in DOMAIN response.segments :
            /\ response.segments[i].segment_id # None
            /\ Len(response.segments[i].audioBase64) > 0

\* a lesson returned after a combined segment without audio was filtered out
C18_Witness ==
    /\ Done /\ response.status = 200
    /\ Len(trace.merged.combined_segments) > Len(response.segments)
    /\ \E i \in DOMAIN trace.audio_segments :
        trace.audio_segments[i].audio_base64 = AList(<< <<>> >>)

\* the record of a list that carries an identifier held once
RecordOf(segs, id) == segs[CHOOSE i \in DOMAIN segs : segs[i].segment_id = id]

\* C19: the response segment with identifier i carries the audio of the audio
\* record i and the narration, imageUrl and duration of the content record i.
C19_Claim ==
    (Done /\ response.status = 200
        /\ DistinctIds(trace.audio_segments) /\ DistinctIds(trace.content_segments)) =>
        \A k \in DOMAIN response.segments :
            LET seg == response.segments[k]
                a == RecordOf(trace.audio_segments, seg.segment_id)
                c == RecordOf(trace.content_segments, seg.segment_id)
            IN  /\ seg.audioBase64 = UsableAudio(a)
                /\ seg.narration = (IF c.narration = NoText THEN "" ELSE c.narration)
                /\ seg.imageUrl = c.image_url
                /\ c.duration # None =>
                    ("duration" \in DOMAIN seg /\ seg.duration = c.duration)

\* C20: every error response of the two handlers carries the header
\* Access-Control-Allow-Origin: *.
C20_ErrorsAllowOrigin ==
    (pc = "done" /\ response.status # 200) =>
        <<"Access-Control-Allow-Origin", "*">> \in response.headers

\* an exception that is no transport error was answered with a 500
C20_Witness ==
    /\ pc = "done"
    /\ answer.kind = "exception"
    /\ answer.exception = "InvalidURL"
    /\ response.status = 500
    /\ response.headers # {}

\* what json.loads gives for a text output, and the output itself otherwise
Normalized(o) ==
    IF o.kind = "text" THEN [o EXCEPT !.kind = "dict"]
    ELSE IF o.kind = "text_list" THEN [o EXCEPT !.kind = "list"]
    ELSE o

\* the error of the first slot that cannot be normalized, "" when both can
NormalizationError(result) ==
    IF result[1].kind = "missing" THEN "Missing output in result"
    ELSE IF result[1].kind = "badjson" THEN "Failed to parse result output as JSON"
    ELSE IF result[2].kind = "missing" THEN "Missing output in result"
    ELSE IF result[2].kind = "badjson" THEN "Failed to parse result output as JSON"
    ELSE ""

\* C22: a missing or empty output gives the MissingOutput error and a text
\* that is not JSON the MalformedJSON error, both as a 500 returned before any
\* segment is examined; every other output is normalized, a text of valid JSON
\* to its parsed value and a structured output to itself.
C22_Claim ==
    Done =>
        IF NormalizationError(data) # ""
        THEN /\ response.status = 500
             /\ response.error = NormalizationError(data)
             /\ trace = NoTrace
        ELSE trace.parsed = <<Normalized(data[1]), Normalized(data[2])>>

\* the last record of the audio-role list that carries audio for identifier id
LastAudioRecord(id) ==
    trace.audio_segments[Last(AudioRecordsOf(trace.audio_segments, id))]

\* C23: a segment whose audio record holds a single string is returned with
\* that string, less its data-URI prefix when it has one.
C23_Claim ==
    LessonOk =>
        \A k \in DOMAIN response.segments :
            LET a == LastAudioRecord(response.segments[k].segment_id) IN
            a.audio_base64.kind = "str" =>
                response.segments[k].audioBase64 = strip_data_uri(a.audio_base64.str)

\* the destinations of the calls issued so far, in the order of issue
CallOrder == [i \in DOMAIN calls |-> calls[i].to]

Prefixes(seq) == {SubSeq(seq, 1, n) : n \in 0..Len(seq)}

\* C24: the calls of a lesson request are, in this order and each at most once,
\* ingest, query and generation with a user_id and the generation call alone
\* without; with a credential missing the generation call is never issued and
\* the request ends with 500.
C24_CallOrder ==
    endpoint = "generateLesson" =>
        /\ CallOrder \in Prefixes(IF HasUserId THEN <<"ingest", "query", "generation">>
                                              ELSE <<"generation">>)
        /\ (~config.AIRIA_API_KEY \/ ~config.AIRIA_API_URL \/ ~config.AIRIA_USER_ID) =>
              /\ \A i \in DOMAIN calls : calls[i].to # "generation"
              /\ LessonDone => response.status = 500

\* three calls were made, the first two of them failed, and the request is over
C24_Witness ==
    /\ LessonDone
    /\ CallOrder = <<"ingest", "query", "generation">>
    /\ fastino.ingest = "timeout" /\ fastino.query = "error_status"
    /\ answer.kind = "exception"

\* the response to the same answer with result[0] and result[1] swapped
SwappedResponse == process_result(<<data[2], data[1]>>, request).response

SameLesson(r1, r2) ==
    r1.status = r2.status /\ r1.topic = r2.topic /\ r1.segments = r2.segments

\* C26 as stated: whenever the response is 200, the swapped answer gives the
\* same 200 response
C26_Original ==
    LessonOk => SameLesson(SwappedResponse, response)

\* C26: when the response is 200 and exactly one of the two lists carries
\* sampled audio, the answer with the two slots swapped gives a 200 response
\* with the same topic and the same segments.
C26_SwapInvariant ==
    (LessonOk /\ HasSampledAudio(data[1].seglist) # HasSampledAudio(data[2].seglist)) =>
        SameLesson(SwappedResponse, response)

\* the audio list is in result[1], and both outputs carry a topic of their own
C26_Witness ==
    /\ LessonOk
    /\ ~HasSampledAudio(data[1].seglist) /\ HasSampledAudio(data[2].seglist)
    /\ NonEmptyTopic(data[1]) /\ NonEmptyTopic(data[2])
    /\ data[1].topic # data[2].topic

\* the merge ran to its end
Merged == Done /\ trace.stage = "merge" /\ ~trace.merged.raised

\* a chunk list whose chunks all decode, to no byte at all
ZeroBytes(seg) ==
    /\ seg.audio_base64.kind = "list" /\ Len(seg.audio_base64.chunks) > 0
    /\ ~HasBadChunk(seg)
    /\ UsableAudio(seg) = <<>>

\* C27: every entry of the identifier-to-audio map has an identifier and a
\* non-empty audio string, and comes from a record of the audio-role list with
\* that identifier and that audio; a record whose chunks decode to zero bytes
\* gets no entry.
C27_Claim ==
    Merged =>
        \A id \in DOMAIN trace.merged.audio_segments_map :
            LET entry == trace.merged.audio_segments_map[id] IN
            /\ id # None
            /\ Len(entry.audio_base64) > 0
            /\ \E i \in DOMAIN trace.audio_segments :
                  /\ trace.audio_segments[i].segment_id = id
                  /\ ~ZeroBytes(trace.audio_segments[i])
                  /\ UsableAudio(trace.audio_segments[i]) = entry.audio_base64

\* the records of segs with identifier id, and those of them with usable audio
RecordsOf(segs, id) == {i \in DOMAIN segs : segs[i].segment_id = id}
UsableRecordsOf(segs, id) == {i \in RecordsOf(segs, id) : Len(UsableAudio(segs[i])) > 0}

\* C30: an identifier with usable audio in the audio-role list and a record in
\* the content-role list, however many records carry it, has exactly one
\* merged segment, with the audio of the last record that has usable audio
\* and the narration and imageUrl of the last content record.
C30_Claim ==
    Merged =>
        \A id \in IdsOf(trace.audio_segments) \cap IdsOf(trace.content_segments) :
            UsableRecordsOf(trace.audio_segments, id) # {} =>
                LET a == trace.audio_segments[Last(UsableRecordsOf(trace.audio_segments, id))]
                    c == trace.content_segments[Last(RecordsOf(trace.content_segments, id))]
                    out == {k \in DOMAIN trace.merged.valid_segments :
                                trace.merged.valid_segments[k].segment_id = id}
                IN  /\ Cardinality(out) = 1
                    /\ \A k \in out :
                        /\ trace.merged.valid_segments[k].audioBase64 = UsableAudio(a)
                        /\ trace.merged.valid_segments[k].narration =
                              (IF c.narration = NoText THEN "" ELSE c.narration)
                        /\ trace.merged.valid_segments[k].imageUrl = c.image_url

\* the positions of a list whose audio_base64 is a non-empty string or list
Populated(segs) ==
    {i \in DOMAIN segs :
        \/ segs[i].audio_base64.kind = "str" /\ segs[i].audio_base64.str # <<>>
        \/ segs[i].audio_base64.kind = "list" /\ segs[i].audio_base64.chunks # <<>>}

\* C25: a list is taken to have audio exactly when one of its first 5 records
\* has a non-empty audio_base64: the slot of the one list that does becomes the
\* audio slot, and when the populated audio fields of both lists all sit at
\* positions 6 and later the request fails with "neither result contains
\* audio_base64".
C25_FirstFive ==
    Done =>
        LET has0 == \E i \in Populated(data[1].seglist) : i <= 5
            has1 == \E i \in Populated(data[2].seglist) : i <= 5
        IN  /\ (has0 /\ ~has1) => trace.audio_result_index = 0
            /\ (has1 /\ ~has0) => trace.audio_result_index = 1
            /\ (~has0 /\ ~has1) =>
                  /\ trace.audio_result_index = None
                  /\ response.status = 500
                  /\ response.error = "neither result contains audio_base64"

\* the only populated audio field of the answer is the sixth record of result[1]
C25_Witness ==
    /\ Done
    /\ Populated(data[1].seglist) = {}
    /\ Populated(data[2].seglist) = {6}
    /\ response.error = "neither result contains audio_base64"

\* the calls to the lesson ingest route that have answered
IngestLessonAnswered ==
    {i \in Slots : frames[i].endpoint = "fastinoIngestLesson" /\ frames[i].pc = "done"}

\* C21: POST /fastino/ingest/lesson has forwarded the request's user_id and
\* topic in one ingest call when it answers, and answers success=true with
\* "Lesson data ingested successfully" exactly when that call succeeded.
C21_Claim ==
    \A i \in IngestLessonAnswered :
        LET f == frames[i] IN
        /\ Len(f.ingests) = 1
        /\ f.ingests[1].user_id = f.request.user_id
        /\ f.ingests[1].topic = f.request.userInput
        /\ f.response.success = (f.ingest = "success")
        /\ f.response.success => f.response.message = "Lesson data ingested successfully"

\* the lesson requests that have been answered
LessonsAnswered ==
    {i \in Slots : frames[i].endpoint = "generateLesson" /\ frames[i].pc = "done"}

\* what a lesson request with these inputs is answered when it runs alone
AloneResponse(req, ans) ==
    IF ans.kind = "result" THEN process_result(ans.result, req).response
    ELSE generation_failure("generateLesson", ans)

\* the prompt a lesson request with these inputs sends when it runs alone
AlonePrompt(req, q) ==
    IF req.user_id # NoText /\ req.user_id # ""
    THEN enhanced_prompt_of(req.userInput, q)
    ELSE [userInput |-> req.userInput, context |-> <<>>]

\* C28: in every interleaving of the steps of two requests, a lesson request
\* sends the prompt and gets the response that its own request, its own query
\* answer and its own generation answer give when it runs alone.
C28_NoInterference ==
    \A i \in LessonsAnswered :
        LET f == frames[i] IN
        /\ f.prompt = AlonePrompt(f.request, f.query)
        /\ f.response = AloneResponse(f.request, f.answer)

\* two lesson requests whose steps interleaved were both served, each with
\* its own userInput as the topic
C28_Witness ==
    /\ LessonsAnswered = Slots
    /\ \A i \in Slots :
        /\ frames[i].overlapped
        /\ frames[i].response.status = 200
        /\ frames[i].response.topic = UserInputs[i]

\* the ingest calls posted so far, each with the call that posted it
IngestCalls ==
    {<<i, k>> \in Slots \X (1..1) : k <= Len(frames[i].ingests)}

\* C29: no two ingest calls carry the same doc_id.
C29_Claim ==
    \A c, d \in IngestCalls :
        c # d => frames[c[1]].ingests[c[2]].doc_id # frames[d[1]].ingests[d[2]].doc_id

====
